---- MODULE Spec2Model ----
(***************************************************************************)
(* The request gatekeeper of frontend-auth/middleware.ts: the Clerk        *)
(* middleware handler that classifies a request as public or protected,    *)
(* resolves the session, and answers with pass-through, a sign-in redirect *)
(* or an unauthorized redirect.                                            *)
(*                                                                         *)
(* JavaScript strings are sequences of one-character strings, so that      *)
(* split, includes, the route patterns and encodeURIComponent are computed *)
(* character by character.                                                 *)
(***************************************************************************)
EXTENDS Naturals, Sequences, FiniteSets

(***************************************************************************)
(* JavaScript values                                                       *)
(***************************************************************************)

\* JavaScript's undefined: a value no string (sequence of characters) equals.
Undefined == <<"undefined">>

\* A null userId (no session).
Null == "null"

\* JavaScript truthiness of a (string | undefined) value: "" and undefined
\* are falsy.
Truthy(v) == v # Undefined /\ v # <<>>

IsPrefix(p, s) == Len(p) <= Len(s) /\ SubSeq(s, 1, Len(p)) = p

(***************************************************************************)
(* Route classification                                                    *)
(***************************************************************************)

SignInPattern == <<"/", "s", "i", "g", "n", "-", "i", "n">>
SignUpPattern == <<"/", "s", "i", "g", "n", "-", "u", "p">>
UnauthorizedPattern == <<"/", "u", "n", "a", "u", "t", "h", "o", "r", "i", "z", "e", "d">>

\* isPublicRoute = createRouteMatcher(['/sign-in(.*)', '/sign-up(.*)',
\* '/unauthorized']): the first two patterns match any path they are a
\* prefix of, the third matches the path itself.
\* Faulty variant: the '/unauthorized' pattern is left out.
isPublicRoute_NoUnauthorized(pathname) ==
    \/ IsPrefix(SignInPattern, pathname)
    \/ IsPrefix(SignUpPattern, pathname)

\* Faulty variant: the '/sign-in(.*)' pattern is left out.
isPublicRoute_NoSignIn(pathname) ==
    \/ IsPrefix(SignUpPattern, pathname)
    \/ pathname = UnauthorizedPattern

isPublicRoute(pathname) ==
    \/ IsPrefix(SignInPattern, pathname)
    \/ IsPrefix(SignUpPattern, pathname)
    \/ pathname = UnauthorizedPattern

\* The file extensions of config.matcher's first pattern, spelled out
\* (html?, jpe?g, woff2?, docx?, xlsx? are two alternatives each).
StaticExtensions ==
    { <<"h", "t", "m", "l">>, <<"h", "t", "m">>, <<"c", "s", "s">>,
      <<"j", "s">>, <<"j", "p", "e", "g">>, <<"j", "p", "g">>,
      <<"w", "e", "b", "p">>, <<"p", "n", "g">>, <<"g", "i", "f">>,
      <<"s", "v", "g">>, <<"t", "t", "f">>, <<"w", "o", "f", "f", "2">>,
      <<"w", "o", "f", "f">>, <<"i", "c", "o">>, <<"c", "s", "v">>,
      <<"d", "o", "c", "x">>, <<"d", "o", "c">>, <<"x", "l", "s", "x">>,
      <<"x", "l", "s">>, <<"z", "i", "p">>,
      <<"w", "e", "b", "m", "a", "n", "i", "f", "e", "s", "t">> }

\* [^?]*\.(?:html?|css|js(?!on)|...) matched as a prefix of rest: some '.'
\* of rest is followed by one of the extensions, "js" only when "on" does
\* not follow it.  A pathname holds no '?'.
HasStaticExtension(rest) ==
    \E i \in 1..Len(rest) :
        /\ rest[i] = "."
        /\ \E e \in StaticExtensions :
             LET after == SubSeq(rest, i + 1, Len(rest))
             IN  /\ IsPrefix(e, after)
                 /\ e = <<"j", "s">> =>
                      ~ IsPrefix(<<"o", "n">>, SubSeq(after, 3, Len(after)))

\* '/((?!_next|[^?]*\.(?:...)).*)': a '/' followed by anything that neither
\* starts with _next nor has a static extension.
MatchesPages(pathname) ==
    /\ IsPrefix(<<"/">>, pathname)
    /\ LET rest == Tail(pathname)
       IN  /\ ~ IsPrefix(<<"_", "n", "e", "x", "t">>, rest)
           /\ ~ HasStaticExtension(rest)

\* '/(api|trpc)(.*)'
MatchesApi(pathname) ==
    \/ IsPrefix(<<"/", "a", "p", "i">>, pathname)
    \/ IsPrefix(<<"/", "t", "r", "p", "c">>, pathname)

\* config.matcher: the middleware runs for a request whose path matches
\* either pattern.
matcher(pathname) == MatchesPages(pathname) \/ MatchesApi(pathname)

(***************************************************************************)
(* The allow list                                                          *)
(***************************************************************************)

ALLOWED_DOMAINS ==
    << <<"b", "i", "o", "n", "i", "c", "a", "i", "s", "o", "l", "u", "t", "i", "o", "n", "s", ".", "c", "o", "m">>,
       <<"z", "i", "p", "p", "i", "o", ".", "a", "i">>,
       <<"g", "m", "a", "i", "l", ".", "c", "o", "m">> >>

IsSuffix(p, s) ==
    Len(p) <= Len(s) /\ SubSeq(s, Len(s) - Len(p) + 1, Len(s)) = p

\* Faulty variants: only the first entry is compared; an entry matches any
\* string it ends.
includes_First(arr, x) == Len(arr) > 0 /\ arr[1] = x

includes_EndsWith(arr, x) ==
    x # Undefined /\ \E i \in 1..Len(arr) : IsSuffix(arr[i], x)

\* Array.prototype.includes: strict equality with some element.
includes(arr, x) == \E i \in 1..Len(arr) : arr[i] = x

\* String.prototype.split with a one-character separator: the segments
\* between the separators; cur is the segment being read.
RECURSIVE splitFrom(_, _, _)
splitFrom(s, sep, cur) ==
    IF s = <<>> THEN <<cur>>
    ELSE IF Head(s) = sep
         THEN <<cur>> \o splitFrom(Tail(s), sep, <<>>)
         ELSE splitFrom(Tail(s), sep, Append(cur, Head(s)))

split(s, sep) == splitFrom(s, sep, <<>>)

\* arr[i] of JavaScript, indexed from 0: undefined past the end.
At(arr, i) == IF i + 1 <= Len(arr) THEN arr[i + 1] ELSE Undefined

\* email.split('@')[1]
emailDomainOf(email) == At(split(email, "@"), 1)

(***************************************************************************)
(* encodeURIComponent                                                      *)
(***************************************************************************)

HexDigits == <<"0", "1", "2", "3", "4", "5", "6", "7", "8", "9",
               "A", "B", "C", "D", "E", "F">>

\* The ASCII codes of the characters encodeURIComponent escapes, among
\* those that occur in the paths of the model.
CharCode(c) ==
    CASE c = "/" -> 47
      [] c = "%" -> 37
      [] c = "@" -> 64
      [] c = ":" -> 58
      [] c = "=" -> 61
      [] c = "?" -> 63
      [] c = "&" -> 38
      [] c = "+" -> 43
      [] c = " " -> 32
      [] OTHER   -> 0

\* Left unescaped: A-Z a-z 0-9 - _ . ! ~ * ' ( ); these are the characters
\* outside the escaped ones above.
IsUnreserved(c) == CharCode(c) = 0

PercentEncode(c) ==
    <<"%", HexDigits[(CharCode(c) \div 16) + 1], HexDigits[(CharCode(c) % 16) + 1]>>

\* Faulty variant: the path is put into the URL as it is.
encodeURIComponent_Identity(s) == s

RECURSIVE encodeURIComponent(_)
encodeURIComponent(s) ==
    IF s = <<>> THEN <<>>
    ELSE (IF IsUnreserved(Head(s)) THEN <<Head(s)>> ELSE PercentEncode(Head(s)))
         \o encodeURIComponent(Tail(s))

(***************************************************************************)
(* Requests and sessions                                                   *)
(***************************************************************************)

Origins ==
    { <<"h", "t", "t", "p", "s", ":", "/", "/", "a", "p", "p", ".", "t", "e", "s", "t">>,
      <<"h", "t", "t", "p", ":", "/", "/", "l", "o", "c", "a", "l", "h", "o", "s", "t", ":", "3", "0", "0", "0">> }

Dashboard == <<"/", "d", "a", "s", "h", "b", "o", "a", "r", "d">>
ApiData == <<"/", "a", "p", "i", "/", "d", "a", "t", "a">>

Pathnames ==
    { <<"/">>,
      Dashboard,
      ApiData,
      <<"/", "a", "p", "i", "/", "x", ".", "j", "s">>,
      <<"/", "t", "r", "p", "c", "/", "q">>,
      SignInPattern,
      <<"/", "s", "i", "g", "n", "-", "i", "n", "/", "s", "s", "o">>,
      <<"/", "s", "i", "g", "n", "-", "i", "n", "x">>,
      <<"/", "s", "i", "g", "n", "-", "i", "n", "/", "a", ".", "j", "s">>,
      SignUpPattern,
      UnauthorizedPattern,
      <<"/", "u", "n", "a", "u", "t", "h", "o", "r", "i", "z", "e", "d", "/", "x">>,
      <<"/", "a", "%", "2", "0", "b">>,
      <<"/", "x", ".", "j", "s", "o", "n">>,
      <<"/", "l", "o", "g", "o", ".", "p", "n", "g">>,
      <<"/", "_", "n", "e", "x", "t", "/", "x">> }

Requests == [origin : Origins, pathname : Pathnames]

AliceZippio == <<"a", "l", "i", "c", "e", "@", "z", "i", "p", "p", "i", "o", ".", "a", "i">>
BobOther == <<"b", "o", "b", "@", "o", "t", "h", "e", "r", ".", "c", "o", "m">>
UserUpperGmail == <<"u", "s", "e", "r", "@", "G", "M", "A", "I", "L", ".", "c", "o", "m">>
UserSubGmail == <<"u", "@", "m", "a", "i", "l", ".", "g", "m", "a", "i", "l", ".", "c", "o", "m">>
NotAnEmail == <<"n", "o", "t", "-", "a", "n", "-", "e", "m", "a", "i", "l">>
TwoAts == <<"a", "@", "g", "m", "a", "i", "l", ".", "c", "o", "m", "@", "e", "v", "i", "l", ".", "c", "o", "m">>

\* The values of the email claim: strings, among them the empty one.
Emails ==
    { AliceZippio, BobOther, UserUpperGmail, UserSubGmail, NotAnEmail, TwoAts,
      <<"u", "@", "g", "m", "a", "i", "l", ".", "c", "o", "m">>,
      <<"u", "@", "x", "g", "m", "a", "i", "l", ".", "c", "o", "m">>,
      <<"x", "@", "b", "i", "o", "n", "i", "c", "a", "i", "s", "o", "l", "u", "t", "i", "o", "n", "s", ".", "c", "o", "m">>,
      <<"@", "g", "m", "a", "i", "l", ".", "c", "o", "m">>,
      <<"u", "@">>,
      <<>> }

UserIds == {"user_1", "user_2"}

\* What auth() resolves to: no session (userId and sessionClaims null), or
\* a user with claims that carry an email or none.
NoSession == [userId |-> Null, hasClaims |-> FALSE, email |-> Undefined]

Sessions ==
    {NoSession} \cup
    [userId : UserIds, hasClaims : {TRUE}, email : Emails \cup {Undefined}]

\* The sessionClaims of a session, null without one.
NullClaims == [present |-> FALSE, email |-> Undefined]

ClaimsOf(s) == [present |-> s.hasClaims, email |-> s.email]

\* sessionClaims?.email
ClaimsEmail(claims) == IF claims.present THEN claims.email ELSE Undefined

(***************************************************************************)
(* State                                                                   *)
(***************************************************************************)

\* How many redirects in a row the client is let to follow.
MaxHops == 2

VARIABLES
    pc,            \* where the invocation stands
    request,       \* request.nextUrl: origin and pathname
    session,       \* what the identity provider holds for the request
    userId,        \* const { userId, sessionClaims } = await auth()
    sessionClaims, \* const { userId, sessionClaims } = await auth()
    authCalls,     \* how often this invocation has awaited auth()
    email,         \* const email
    emailDomain,   \* const emailDomain
    response,      \* the URL of Response.redirect, undefined on pass-through
    hops           \* how many redirects the client has followed to get here

vars == <<pc, request, session, userId, sessionClaims, authCalls, email, emailDomain, response, hops>>

Terminal == {"Allowed", "SignInRedirect", "UnauthorizedRedirect"}

Init ==
    /\ pc = "Arrived"
    /\ request \in Requests
    /\ session \in Sessions
    /\ userId = Null
    /\ sessionClaims = NullClaims
    /\ authCalls = 0
    /\ email = Undefined
    /\ emailDomain = Undefined
    /\ response = Undefined
    /\ hops = 0

\* config.matcher: a request whose path matches is handed to the
\* middleware, any other goes to the application without it.
Dispatch ==
    /\ pc = "Arrived"
    /\ pc' = IF matcher(request.pathname) THEN "Unclassified" ELSE "Skipped"
    /\ UNCHANGED <<request, session, userId, sessionClaims, authCalls, email, emailDomain, response, hops>>

\* if (!isPublicRoute(request)) { ... }: a public route falls off the end of
\* the handler, which returns nothing.
Classify ==
    /\ pc = "Unclassified"
    /\ pc' = IF isPublicRoute(request.pathname) THEN "Allowed" ELSE "Checking"
    /\ UNCHANGED <<request, session, userId, sessionClaims, authCalls, email, emailDomain, response, hops>>

\* const { userId, sessionClaims } = await auth()
ResolveSession ==
    /\ pc = "Checking"
    /\ userId' = session.userId
    /\ sessionClaims' = ClaimsOf(session)
    /\ authCalls' = authCalls + 1
    /\ pc' = "Resolved"
    /\ UNCHANGED <<request, session, email, emailDomain, response, hops>>

signInUrl(url) ==
    url.origin
      \o <<"/", "s", "i", "g", "n", "-", "i", "n", "?", "r", "e", "d", "i", "r", "e", "c", "t", "_", "u", "r", "l", "=">>
      \o encodeURIComponent(url.pathname)

\* Faulty variant: the redirect is built but not returned.
CheckUserId_FallThrough ==
    /\ pc = "Resolved"
    /\ pc' = "Authenticated"
    /\ UNCHANGED <<request, session, userId, sessionClaims, authCalls, email, emailDomain, response, hops>>

\* if (!userId) { return Response.redirect(signInUrl) }
CheckUserId ==
    /\ pc = "Resolved"
    /\ IF userId = Null
       THEN /\ response' = signInUrl(request)
            /\ pc' = "SignInRedirect"
       ELSE /\ response' = response
            /\ pc' = "Authenticated"
    /\ UNCHANGED <<request, session, userId, sessionClaims, authCalls, email, emailDomain, hops>>

\* Faulty variants: a session without an email is rejected; email.split is
\* called without the if (email) guard and throws on undefined.
ReadEmail_Required ==
    /\ pc = "Authenticated"
    /\ email' = ClaimsEmail(sessionClaims)
    /\ IF Truthy(email')
       THEN pc' = "DomainCheck" /\ response' = response
       ELSE pc' = "UnauthorizedRedirect"
            /\ response' = request.origin \o UnauthorizedPattern
    /\ UNCHANGED <<request, session, userId, sessionClaims, authCalls, emailDomain, hops>>

ReadEmail_Unguarded ==
    /\ pc = "Authenticated"
    /\ email' = ClaimsEmail(sessionClaims)
    /\ pc' = IF email' = Undefined THEN "TypeError" ELSE "DomainCheck"
    /\ UNCHANGED <<request, session, userId, sessionClaims, authCalls, emailDomain, response, hops>>

\* const email = sessionClaims?.email; if (email) { ... }: without an email
\* the handler falls off its end.
ReadEmail ==
    /\ pc = "Authenticated"
    /\ email' = ClaimsEmail(sessionClaims)
    /\ pc' = IF Truthy(email') THEN "DomainCheck" ELSE "Allowed"
    /\ UNCHANGED <<request, session, userId, sessionClaims, authCalls, emailDomain, response, hops>>

\* Faulty variant: an undefined domain is not looked up.
CheckDomain_DomainGuard ==
    /\ pc = "DomainCheck"
    /\ emailDomain' = emailDomainOf(email)
    /\ IF emailDomain' # Undefined /\ ~ includes(ALLOWED_DOMAINS, emailDomain')
       THEN /\ response' = request.origin \o UnauthorizedPattern
            /\ pc' = "UnauthorizedRedirect"
       ELSE /\ response' = response
            /\ pc' = "Allowed"
    /\ UNCHANGED <<request, session, userId, sessionClaims, authCalls, email, hops>>

\* const emailDomain = email.split('@')[1]
\* if (!ALLOWED_DOMAINS.includes(emailDomain))
\*   return Response.redirect(`${request.nextUrl.origin}/unauthorized`)
CheckDomain ==
    /\ pc = "DomainCheck"
    /\ emailDomain' = emailDomainOf(email)
    /\ IF ~ includes(ALLOWED_DOMAINS, emailDomain')
       THEN /\ response' = request.origin \o UnauthorizedPattern
            /\ pc' = "UnauthorizedRedirect"
       ELSE /\ response' = response
            /\ pc' = "Allowed"
    /\ UNCHANGED <<request, session, userId, sessionClaims, authCalls, email, hops>>

\* The platform invokes the middleware once per request; invocations share
\* nothing, so the next one starts from fresh locals.
NewRequest ==
    /\ pc \in Terminal \cup {"Skipped"}
    /\ pc' = "Arrived"
    /\ request' \in Requests
    /\ session' \in Sessions
    /\ userId' = Null
    /\ sessionClaims' = NullClaims
    /\ authCalls' = 0
    /\ email' = Undefined
    /\ emailDomain' = Undefined
    /\ response' = Undefined
    /\ hops' = 0

\* The '/' that starts the path of an absolute URL: the third one, after
\* the two of "scheme://".
PathStart(url) ==
    CHOOSE i \in 1..Len(url) :
        /\ url[i] = "/"
        /\ Cardinality({j \in 1..(i - 1) : url[j] = "/"}) = 2

\* new URL(url).origin
urlOrigin(url) == SubSeq(url, 1, PathStart(url) - 1)

\* new URL(url).pathname: from the path's '/' up to the query or fragment.
urlPathname(url) ==
    LET ends == {i \in PathStart(url)..Len(url) : url[i] \in {"?", "#"}}
        last == IF ends = {} THEN Len(url)
                ELSE (CHOOSE i \in ends : \A j \in ends : i <= j) - 1
    IN  SubSeq(url, PathStart(url), last)

\* The client follows the redirect: it requests the URL of the response
\* with the session it has, and the middleware is invoked for that request.
FollowRedirect ==
    /\ pc \in {"SignInRedirect", "UnauthorizedRedirect"}
    /\ hops < MaxHops
    /\ request' = [origin |-> urlOrigin(response), pathname |-> urlPathname(response)]
    /\ hops' = hops + 1
    /\ pc' = "Arrived"
    /\ userId' = Null
    /\ sessionClaims' = NullClaims
    /\ authCalls' = 0
    /\ email' = Undefined
    /\ emailDomain' = Undefined
    /\ response' = Undefined
    /\ UNCHANGED session

Handler == Classify \/ ResolveSession \/ CheckUserId \/ ReadEmail \/ CheckDomain

Next ==
    \/ Dispatch
    \/ Classify
    \/ ResolveSession
    \/ CheckUserId
    \/ ReadEmail
    \/ CheckDomain
    \/ NewRequest
    \/ FollowRedirect

Spec == Init /\ [][Next]_vars

\* An invocation runs to completion: the only suspension is await auth(),
\* which resolves.
FairSpec == Spec /\ WF_vars(Dispatch) /\ WF_vars(Handler)

(***************************************************************************)
(* Vocabulary of the properties                                            *)
(***************************************************************************)

\* A public path: /sign-in..., /sign-up... or /unauthorized.
PublicPath(pathname) ==
    \/ IsPrefix(<<"/", "s", "i", "g", "n", "-", "i", "n">>, pathname)
    \/ IsPrefix(<<"/", "s", "i", "g", "n", "-", "u", "p">>, pathname)
    \/ pathname = <<"/", "u", "n", "a", "u", "t", "h", "o", "r", "i", "z", "e", "d">>

ProtectedPath(pathname) == ~ PublicPath(pathname)

ApiPath(pathname) == IsPrefix(<<"/", "a", "p", "i", "/">>, pathname)

\* The request carries a valid session: the identity provider knows a user.
ValidSession == session.userId # Null

\* The session carries an email claim (an empty one counts as none).
HasEmailClaim == ValidSession /\ session.email # Undefined /\ session.email # <<>>

AllowList == { ALLOWED_DOMAINS[i] : i \in 1..Len(ALLOWED_DOMAINS) }

HasAt(e) == \E i \in 1..Len(e) : e[i] = "@"

FirstAt(e) == CHOOSE i \in 1..Len(e) : e[i] = "@" /\ \A j \in 1..(i - 1) : e[j] # "@"

\* The domain of an email address: everything after its first '@',
\* undefined when it has none.
DomainOfEmail(e) ==
    IF HasAt(e) THEN SubSeq(e, FirstAt(e) + 1, Len(e)) ELSE Undefined

UpperLetters == <<"A", "B", "C", "D", "E", "F", "G", "H", "I", "J", "K", "L", "M",
                  "N", "O", "P", "Q", "R", "S", "T", "U", "V", "W", "X", "Y", "Z">>
LowerLetters == <<"a", "b", "c", "d", "e", "f", "g", "h", "i", "j", "k", "l", "m",
                  "n", "o", "p", "q", "r", "s", "t", "u", "v", "w", "x", "y", "z">>

LowerChar(c) ==
    IF \E i \in 1..26 : UpperLetters[i] = c
    THEN LowerLetters[CHOOSE i \in 1..26 : UpperLetters[i] = c]
    ELSE c

LowerCase(str) == [i \in 1..Len(str) |-> LowerChar(str[i])]

\* d is no entry of the AllowList, but is one up to letter case.
CaseVariantOfAllowed(d) == d \notin AllowList /\ LowerCase(d) \in AllowList

\* d is a subdomain of an entry of the AllowList.
SubdomainOfAllowed(d) == \E a \in AllowList : IsSuffix(<<".">> \o a, d)

EscapedChars == {"/", "%", "@", ":", "=", "?", "&", "+", " "}

HexValue(h) == (CHOOSE i \in 1..16 : HexDigits[i] = h) - 1

\* The inverse of percent-encoding, as the sign-in page applies it to the
\* redirect_url parameter.
RECURSIVE PercentDecode(_)
PercentDecode(str) ==
    IF str = <<>> THEN <<>>
    ELSE IF Head(str) = "%" /\ Len(str) >= 3
         THEN LET code == 16 * HexValue(str[2]) + HexValue(str[3])
              IN  <<CHOOSE c \in EscapedChars : CharCode(c) = code>>
                    \o PercentDecode(SubSeq(str, 4, Len(str)))
         ELSE <<Head(str)>> \o PercentDecode(Tail(str))

SignInEndpoint ==
    <<"/", "s", "i", "g", "n", "-", "i", "n", "?", "r", "e", "d", "i", "r", "e", "c", "t", "_", "u", "r", "l", "=">>

(***************************************************************************)
(* Properties                                                              *)
(***************************************************************************)

\* C1: a request to a protected path without a valid session ends in a
\* sign-in redirect, never in pass-through or an unauthorized redirect; an
\* API path such as /api/data is never public and never left to the
\* application without the middleware.
C1_UnauthenticatedGetsSignIn ==
    /\ (pc \in Terminal /\ ProtectedPath(request.pathname) /\ ~ ValidSession)
         => pc = "SignInRedirect"
    /\ (pc \in Terminal \cup {"Skipped"} /\ ApiPath(request.pathname) /\ ~ ValidSession)
         => pc = "SignInRedirect"

C1_Witness ==
    pc = "SignInRedirect" /\ request.pathname = ApiData /\ ~ ValidSession

\* C2: a protected request is passed through only when its session is
\* valid and its email domain has been found in the AllowList.
C2_AllowedOnlyIfAuthenticatedAndDomainAllowed ==
    (pc = "Allowed" /\ ProtectedPath(request.pathname))
      => (ValidSession /\ emailDomain \in AllowList)

\* C3: a request to a protected path with a valid session whose email
\* domain is not in the AllowList ends in an unauthorized redirect.
C3_DisallowedDomainGetsUnauthorized ==
    (/\ pc \in Terminal
     /\ ProtectedPath(request.pathname)
     /\ HasEmailClaim
     /\ DomainOfEmail(session.email) \notin AllowList)
      => pc = "UnauthorizedRedirect"

\* C4: a request to a protected path with a valid session whose email
\* domain is in the AllowList is passed through, without a redirect.
C4_AllowedDomainPasses ==
    (/\ pc \in Terminal
     /\ ProtectedPath(request.pathname)
     /\ HasEmailClaim
     /\ DomainOfEmail(session.email) \in AllowList)
      => (pc = "Allowed" /\ response = Undefined)

C4_Witness ==
    /\ pc = "Allowed"
    /\ request.pathname = Dashboard
    /\ session.email = AliceZippio
    /\ emailDomain = ALLOWED_DOMAINS[2]

\* C5: a request to a public path is passed through whatever its session
\* and email are: the session is never resolved and no redirect is made.
C5_PublicAlwaysAllowed ==
    PublicPath(request.pathname)
      => /\ pc \in {"Arrived", "Skipped", "Unclassified", "Allowed"}
         /\ authCalls = 0
         /\ response = Undefined

C5_Witness ==
    /\ pc = "Allowed"
    /\ request.pathname = UnauthorizedPattern
    /\ session.email = BobOther

\* C6: membership in the AllowList is exact and case-sensitive: an email
\* domain that differs from the entries only by letter case, or that is a
\* subdomain of an entry, ends in an unauthorized redirect.
C6_ExactCaseSensitiveMatch ==
    (/\ pc \in Terminal
     /\ ProtectedPath(request.pathname)
     /\ HasEmailClaim
     /\ \/ CaseVariantOfAllowed(DomainOfEmail(session.email))
        \/ SubdomainOfAllowed(DomainOfEmail(session.email)))
      => pc = "UnauthorizedRedirect"

C6_Witness ==
    /\ pc = "UnauthorizedRedirect"
    /\ ProtectedPath(request.pathname)
    /\ session.email = UserSubGmail

\* C7: an authenticated request to a protected path whose session carries
\* no email claim is passed through: no domain is checked, no redirect made.
C7_MissingEmailAllowed ==
    (/\ pc \in Terminal
     /\ ProtectedPath(request.pathname)
     /\ ValidSession
     /\ ~ HasEmailClaim)
      => (pc = "Allowed" /\ emailDomain = Undefined /\ response = Undefined)

C7_Witness ==
    /\ pc = "Allowed"
    /\ ProtectedPath(request.pathname)
    /\ ValidSession
    /\ session.email = Undefined

\* C8: an authenticated request to a protected path whose email claim holds
\* no '@' has an undefined domain, fails the allow-list check and ends in an
\* unauthorized redirect.
C8_NoAtGetsUnauthorized ==
    (/\ pc \in Terminal
     /\ ProtectedPath(request.pathname)
     /\ HasEmailClaim
     /\ ~ HasAt(session.email))
      => /\ pc = "UnauthorizedRedirect"
         /\ emailDomain = Undefined
         /\ response = request.origin \o <<"/", "u", "n", "a", "u", "t", "h", "o", "r", "i", "z", "e", "d">>

C8_Witness ==
    /\ pc = "UnauthorizedRedirect"
    /\ session.email = NotAnEmail
    /\ emailDomain = Undefined

\* C9: a sign-in redirect goes to <origin>/sign-in with a redirect_url
\* parameter that is the URL-encoded path of the rejected request: it
\* holds no delimiter of a URL and decodes to that path; /dashboard gives
\* /sign-in?redirect_url=%2Fdashboard.
C9_SignInRedirectKeepsPath ==
    pc = "SignInRedirect" =>
      /\ IsPrefix(request.origin \o SignInEndpoint, response)
      /\ LET param == SubSeq(response,
                             Len(request.origin) + Len(SignInEndpoint) + 1,
                             Len(response))
         IN  /\ \A i \in 1..Len(param) : param[i] \notin {"/", "?", "&", "#", "=", " "}
             /\ PercentDecode(param) = request.pathname
      /\ request.pathname = Dashboard =>
           response = request.origin \o SignInEndpoint
                        \o <<"%", "2", "F", "d", "a", "s", "h", "b", "o", "a", "r", "d">>

C9_Witness ==
    /\ pc = "SignInRedirect"
    /\ request.pathname = <<"/", "a", "%", "2", "0", "b">>
    /\ response # Undefined

\* C10: every invocation of the middleware, from Unclassified on, reaches
\* one of the three dispositions Allowed, SignInRedirect and
\* UnauthorizedRedirect, and is never in a state outside the state machine.
C10_EveryInvocationDisposed ==
    /\ [](pc \in {"Arrived", "Skipped", "Unclassified", "Checking", "Resolved",
                  "Authenticated", "DomainCheck"} \cup Terminal)
    /\ (pc = "Unclassified") ~> (pc \in Terminal)

C10_Witness ==
    /\ pc = "UnauthorizedRedirect"
    /\ authCalls = 1
    /\ session.email = BobOther

\* C11: the domain compared against the AllowList is everything after the
\* first '@' of the email claim, also for an email with more than one '@'.
C11_ComparedDomainIsSuffixAfterFirstAt ==
    (pc \in {"Allowed", "UnauthorizedRedirect"} /\ Truthy(email))
      => emailDomain = DomainOfEmail(email)

\* C12: redirects never loop: the path of every redirect the middleware
\* issues is a public path, the request of a client that follows the
\* redirect with the same session is passed through, and so no chain of
\* followed redirects is longer than one hop.
C12_RedirectsNeverLoop ==
    /\ pc \in {"SignInRedirect", "UnauthorizedRedirect"}
         => /\ PublicPath(urlPathname(response))
            /\ urlOrigin(response) = request.origin
    /\ (hops >= 1 /\ pc \in Terminal \cup {"Skipped"})
         => (pc = "Allowed" /\ response = Undefined)
    /\ hops <= 1

C12_Witness ==
    /\ hops = 1
    /\ pc = "Allowed"
    /\ request.pathname = UnauthorizedPattern
    /\ session.email = BobOther

====
